---- MODULE Spec2Model ----
(***************************************************************************)
(* A model of haollama-proxy.py: the Flask routes proxy_chat and           *)
(* proxy_all, the generator ndjson_stream that rewrites the backend's      *)
(* NDJSON stream line by line, and remove_empty_think_tags.                *)
(*                                                                         *)
(* Strings are sequences of tokens: a token stands for one think-tag in    *)
(* one spelling, one whitespace character, or one other character.         *)
(* JSON values are records tagged by their type in field t.                *)
(***************************************************************************)
EXTENDS Integers, Sequences, FiniteSets, TLC

\* ------------------------------------------------------------------ bounds
MaxLines == 2
MaxContentLen == 4
MaxHeaders == 2
MaxQuery == 2

\* ------------------------------------------------------------- text model
\* One token per lexical unit of a string value.  "message" and "content"
\* are ordinary words that happen to spell the keys the code looks up.
ContentTokens == {"<think>", "<THINK>", "</think>", "</Think>", "SP", "NL", "x"}

\* str.lower() of a token, as re.IGNORECASE compares it.
Lower(tok) ==
  CASE tok = "<THINK>" -> "<think>"
    [] tok = "</Think>" -> "</think>"
    [] OTHER -> tok

\* The class \s of the pattern: space and newline here.
IsSpace(tok) == tok \in {"SP", "NL"}

\* The literal <think> of the pattern, matched without IGNORECASE.
MatchesOpen_CaseSensitive(tok) == tok = "<think>"

\* The literal <think> of the pattern under re.IGNORECASE.
MatchesOpen(tok) == Lower(tok) = "<think>"

\* The literal </think> of the pattern under re.IGNORECASE.
MatchesClose(tok) == Lower(tok) = "</think>"

\* First position at or after j that \s* cannot consume (Len+1 at the end).
RECURSIVE SkipSpace(_, _)
SkipSpace(text, j) ==
  IF j <= Len(text) /\ IsSpace(text[j]) THEN SkipSpace(text, j + 1) ELSE j

\* First closing tag at or after j, 0 when there is none.
RECURSIVE NextClose(_, _)
NextClose(text, j) ==
  IF j > Len(text) THEN 0
  ELSE IF Lower(text[j]) = "</think>" THEN j
  ELSE NextClose(text, j + 1)

\* The pattern <think>.*?</think>: any content between the tags.
MatchEnd_AnyContent(text, i) ==
  IF Lower(text[i]) # "<think>" THEN 0 ELSE NextClose(text, i + 1)

\* Position of the closing tag of a match of <think>\s*</think> that starts
\* at i, or 0 when no match starts at i.  \s* is greedy; giving characters
\* back never helps, the character after a shorter run being whitespace.
MatchEnd(text, i) ==
  IF ~MatchesOpen(text[i]) THEN 0
  ELSE LET j == SkipSpace(text, i + 1)
       IN  IF j <= Len(text) /\ MatchesClose(text[j]) THEN j ELSE 0

\* re.sub with the empty replacement: one left-to-right scan, every
\* leftmost non-overlapping match dropped, the scan resuming after it.
RECURSIVE ReSub(_, _)
ReSub(text, i) ==
  IF i > Len(text) THEN <<>>
  ELSE LET e == MatchEnd(text, i)
       IN  IF e > 0 THEN ReSub(text, e + 1)
           ELSE <<text[i]>> \o ReSub(text, i + 1)

remove_empty_think_tags(text) == ReSub(text, 1)

\* ------------------------------------------------------------- JSON model
Absent == [t |-> "absent"]
JNull == [t |-> "null"]
JNum == [t |-> "num"]
JStr(s) == [t |-> "str", s |-> s]
JList(items) == [t |-> "list", items |-> items]
\* A dict; message and content are its values under those keys, Absent
\* when the key is missing.  Other keys do not matter to the code.
JObj(m, c) == [t |-> "obj", message |-> m, content |-> c]

\* Python's `key in v`: "true", "false", or "TypeError".
PyIn(key, v) ==
  CASE v.t = "obj" ->
         IF (IF key = "message" THEN v.message ELSE v.content) # Absent
         THEN "true" ELSE "false"
    [] v.t = "str" ->
         IF \E i \in 1..Len(v.s) : v.s[i] = key THEN "true" ELSE "false"
    [] v.t = "list" ->
         IF \E i \in 1..Len(v.items) : v.items[i] = JStr(<<key>>)
         THEN "true" ELSE "false"
    [] OTHER -> "TypeError"

\* Python's v[key] for a str key: defined on a dict holding the key only.
PyCanIndex(v) == v.t = "obj"
PyGetItem(v, key) == IF key = "message" THEN v.message ELSE v.content

\* Whether lines 127-128 raise for the parsed value data (a TypeError from
\* `in`, from indexing, or from re.sub on a value that is no string).
TransformRaises(data) ==
  IF PyIn("message", data) = "TypeError" THEN TRUE
  ELSE IF PyIn("message", data) = "false" THEN FALSE
  ELSE IF ~PyCanIndex(data) THEN TRUE
  ELSE IF PyIn("content", PyGetItem(data, "message")) = "TypeError" THEN TRUE
  ELSE IF PyIn("content", PyGetItem(data, "message")) = "false" THEN FALSE
  ELSE IF ~PyCanIndex(PyGetItem(data, "message")) THEN TRUE
  ELSE PyGetItem(PyGetItem(data, "message"), "content").t # "str"

\* Whether the condition of line 127 holds (asked only when nothing raises).
TransformApplies(data) ==
  /\ PyIn("message", data) = "true"
  /\ PyIn("content", PyGetItem(data, "message")) = "true"

\* data after lines 127-128, when they do not raise.
LineTransform(data) ==
  IF TransformApplies(data)
  THEN [data EXCEPT !.message.content.s = remove_empty_think_tags(@)]
  ELSE data

\* ------------------------------------------------------- lines and chunks
\* One element of resp.iter_lines(): its kind says what json.loads makes of
\* the bytes, val is the value it parses to, fmt the spelling on the wire.
EmptyLine == [kind |-> "empty", val |-> Absent, fmt |-> "wire"]
\* Bytes that are text but no JSON document: json.JSONDecodeError.
BadJsonLine == [kind |-> "badjson", val |-> Absent, fmt |-> "wire"]
\* Bytes that are not UTF-8: UnicodeDecodeError, no JSONDecodeError.
BadUtf8Line == [kind |-> "badutf8", val |-> Absent, fmt |-> "wire"]
JsonLine(v) == [kind |-> "json", val |-> v, fmt |-> "wire"]

\* json.loads: the value of a line that parses (the spelling is lost).
json_loads(line) == line.val

\* (json.dumps(data) + "\n").encode('utf-8'): the value in json.dumps'
\* own spelling, followed by one newline.
Chunk(data) == [json |-> data, fmt |-> "dumps", tail |-> <<"NL">>]

\* The bytes of a line sent on as they came, with a newline.
RawChunk(line) == [json |-> line.val, fmt |-> line.fmt, tail |-> <<"NL">>]

Content(s) == JObj(JObj(Absent, JStr(s)), Absent)

\* The lines the backend may send in the streaming runs: every shape the
\* branches of ndjson_stream tell apart.
LineSet ==
  { EmptyLine, BadJsonLine, BadUtf8Line,
    JsonLine(JNum),                                  \* 42
    JsonLine(JStr(<<"message">>)),                   \* "message"
    JsonLine(JList(<<>>)),                           \* []
    JsonLine(JObj(Absent, Absent)),                  \* {"done": true}
    JsonLine(JObj(JNull, Absent)),                   \* {"message": null}
    JsonLine(JObj(JStr(<<"x">>), Absent)),           \* {"message": "x"}
    JsonLine(JObj(JStr(<<"content">>), Absent)),     \* {"message": "content"}
    JsonLine(JObj(JObj(Absent, Absent), Absent)),    \* {"message": {}}
    JsonLine(JObj(JObj(Absent, JNull), Absent)),     \* {"message": {"content": null}}
    JsonLine(Content(<<"x">>)),
    JsonLine(Content(<<"<think>", "NL", "</think>", "x">>)),
    JsonLine(Content(<<"<think>", "x", "</think>">>)),
    JsonLine(Content(<<"<THINK>", "</Think>">>)) }

\* ------------------------------------------------------ headers and query
\* A header line: its name as spelled and its value, a sequence of value
\* tokens ("," stands for the comma that joins folded values).
Header(n, v) == [name |-> n, value |-> v]

\* str.lower() of a header name.
LowerName(n) ==
  CASE n \in {"Host", "host"} -> "host"
    [] n = "Accept" -> "accept"
    [] n \in {"Content-Length", "CONTENT-LENGTH"} -> "content-length"
    [] n = "content-encoding" -> "content-encoding"
    [] n = "Transfer-Encoding" -> "transfer-encoding"
    [] n = "Connection" -> "connection"
    [] n = "Location" -> "location"
    [] n \in {"Set-Cookie", "set-cookie"} -> "set-cookie"
    [] OTHER -> n

\* The spelling request.headers gives a name: the WSGI environ key
\* HTTP_<NAME> turned back into Title-Case.
TitleName(n) ==
  CASE LowerName(n) = "host" -> "Host"
    [] LowerName(n) = "accept" -> "Accept"
    [] OTHER -> n

\* Position of the entry of hs whose name is n, 0 when there is none.
RECURSIVE IndexOfName(_, _, _)
IndexOfName(hs, n, i) ==
  IF i > Len(hs) THEN 0
  ELSE IF hs[i].name = n THEN i
  ELSE IndexOfName(hs, n, i + 1)

\* request.headers: the pairs the handler iterates.  The WSGI environ holds
\* one value per header name, repeated lines joined with a comma, so the
\* iteration yields each name once, in Title-Case.
RECURSIVE EnvironFold(_, _)
EnvironFold(wire, acc) ==
  IF wire = <<>> THEN acc
  ELSE LET h == Head(wire)
           n == TitleName(h.name)
           i == IndexOfName(acc, n, 1)
       IN  IF i = 0
           THEN EnvironFold(Tail(wire), Append(acc, Header(n, h.value)))
           ELSE EnvironFold(Tail(wire),
                  [acc EXCEPT ![i].value = @ \o <<",">> \o h.value])
RequestHeaders(wire) == EnvironFold(wire, <<>>)

\* A dict built by assigning pairs in order: a key assigned again keeps its
\* place and takes the new value.
RECURSIVE DictOf(_, _)
DictOf(pairs, acc) ==
  IF pairs = <<>> THEN acc
  ELSE LET h == Head(pairs)
           i == IndexOfName(acc, h.name, 1)
       IN  IF i = 0 THEN DictOf(Tail(pairs), Append(acc, h))
           ELSE DictOf(Tail(pairs), [acc EXCEPT ![i].value = h.value])

\* The test `key != 'host'`, without lower().
KeepsRequestHeader_CaseSensitive(h) == h.name # "host"

\* The test `key.lower() != 'host'`.
KeepsRequestHeader(h) == LowerName(h.name) # "host"

\* {key: value for key, value in request.headers if key.lower() != 'host'}
FilterRequestHeaders(wire) ==
  DictOf(SelectSeq(RequestHeaders(wire), KeepsRequestHeader), <<>>)

\* resp.raw.headers.items(): every header line of the backend's response,
\* the lines of one name (compared in lower case) brought together at the
\* place of the first and given its spelling, their values in order.
RECURSIVE LinesOfName(_, _, _)
LinesOfName(wire, first, i) ==
  IF i > Len(wire) THEN <<>>
  ELSE (IF LowerName(wire[i].name) = LowerName(first)
        THEN <<Header(first, wire[i].value)>> ELSE <<>>)
       \o LinesOfName(wire, first, i + 1)
RECURSIVE RawHeaderItemsFrom(_, _)
RawHeaderItemsFrom(wire, i) ==
  IF i > Len(wire) THEN <<>>
  ELSE (IF \E j \in 1..(i - 1) : LowerName(wire[j].name) = LowerName(wire[i].name)
        THEN <<>>
        ELSE LinesOfName(wire, wire[i].name, i))
       \o RawHeaderItemsFrom(wire, i + 1)
RawHeaderItems(wire) == RawHeaderItemsFrom(wire, 1)

excluded_headers ==
  {"content-encoding", "content-length", "transfer-encoding", "connection"}

\* A filter that lets every response header through.
KeepsResponseHeader_All(h) == TRUE

\* The test `name.lower() not in excluded_headers`.
KeepsResponseHeader(h) == LowerName(h.name) \notin excluded_headers

\* [(name, value) for (name, value) in resp.raw.headers.items()
\*  if name.lower() not in excluded_headers]
FilterResponseHeaders(wire) ==
  SelectSeq(RawHeaderItems(wire), KeepsResponseHeader)

\* A query parameter as written in the URL.
Param(k, v) == [key |-> k, val |-> v]

\* Whether key k occurs among the first i - 1 parameters of q.
SeenBefore(q, i) == \E j \in 1..(i - 1) : q[j].key = q[i].key

\* Every parameter sent on, as a list of pairs would be.
RECURSIVE ParamsSent_All(_, _)
ParamsSent_All(q, i) ==
  IF i > Len(q) THEN <<>> ELSE <<q[i]>> \o ParamsSent_All(q, i + 1)

\* params=request.args: requests takes the items() of the mapping it is
\* given, and a MultiDict's items() has one pair per key, its first value.
RECURSIVE ParamsSent(_, _)
ParamsSent(q, i) ==
  IF i > Len(q) THEN <<>>
  ELSE (IF SeenBefore(q, i) THEN <<>> ELSE <<q[i]>>) \o ParamsSent(q, i + 1)

\* Sequences over S of length at most n.
SeqsUpTo(S, n) == UNION {[1..k -> S] : k \in 0..n}

\* ------------------------------------------------------------ the request
Methods == {"GET", "POST", "PUT", "DELETE", "PATCH", "OPTIONS"}
\* Paths without their leading slash, as Flask hands them to proxy_all; ""
\* is the root path "/".
Paths == {"", "api/chat", "api/generate", "api/tags"}
\* The inbound body: a JSON object whose "stream" key is missing, true or
\* false.
Bodies == {"stream-absent", "stream-true", "stream-false"}
BackendStatuses == {200, 302, 404, 500}

\* Header lines a client may send, and a backend may answer with.
RequestHeaderLines ==
  { Header("Host", <<"h">>), Header("host", <<"h">>),
    Header("Accept", <<"a1">>), Header("Accept", <<"a2">>) }
ResponseHeaderLines ==
  { Header("CONTENT-LENGTH", <<"n">>), Header("content-encoding", <<"gzip">>),
    Header("Transfer-Encoding", <<"chunked">>), Header("Connection", <<"close">>),
    Header("Location", <<"u">>),
    Header("Set-Cookie", <<"c1">>), Header("set-cookie", <<"c2">>) }
QueryParams == {Param("a", "1"), Param("a", "2"), Param("b", "1")}

\* The requests of the runs: every method on every path; header lists on a
\* forwarded and on a chat request; query strings on the same two.
RoutingRequests ==
  [method : Methods, path : Paths, body : Bodies,
   query : {<<>>}, headers : {<<>>}]
HeaderRequests ==
  [method : {"GET"}, path : {"api/tags"}, body : {"stream-absent"},
   query : {<<>>}, headers : SeqsUpTo(RequestHeaderLines, MaxHeaders)]
  \cup
  [method : {"POST"}, path : {"api/chat"}, body : {"stream-absent"},
   query : {<<>>}, headers : SeqsUpTo(RequestHeaderLines, MaxHeaders)]
QueryRequests ==
  [method : {"GET"}, path : {"api/tags"}, body : {"stream-absent"},
   query : SeqsUpTo(QueryParams, MaxQuery), headers : {<<>>}]
  \cup
  [method : {"POST"}, path : {"api/chat"}, body : {"stream-absent"},
   query : SeqsUpTo(QueryParams, MaxQuery), headers : {<<>>}]

\* What the backend does with the call: it cannot be reached, or it
\* answers with a status, header lines and a body.  The body is coded as
\* its content-encoding header says.
Unreachable == [up |-> FALSE, status |-> 0, headers |-> <<>>]
Answer(st, hs) == [up |-> TRUE, status |-> st, headers |-> hs]
PlainBackends == {Answer(st, <<>>) : st \in BackendStatuses} \cup {Unreachable}
HeaderBackends ==
  {Answer(st, hs) : st \in {200, 302},
                    hs \in SeqsUpTo(ResponseHeaderLines, MaxHeaders)}
BodyOnWire(b) ==
  [data |-> "backend-payload",
   coding |-> IF \E i \in 1..Len(b.headers) :
                   LowerName(b.headers[i].name) = "content-encoding"
              THEN "gzip" ELSE "identity"]
\* resp.content: the body with its content coding undone.
ContentOf_resp(b) == [data |-> BodyOnWire(b).data, coding |-> "identity"]
NoBody == [data |-> "-", coding |-> "identity"]
ErrorPage == [data |-> "Internal Server Error", coding |-> "identity"]

NoCall == [sent |-> FALSE, method |-> "-", url |-> <<>>, path |-> "-",
           body |-> "-", lazy |-> FALSE, query |-> <<>>, headers |-> <<>>,
           allow_redirects |-> FALSE]
NoResponse == [status |-> 0, mimetype |-> "-", streamed |-> FALSE,
               body |-> NoBody, headers |-> <<>>]
NoLine == [kind |-> "none", val |-> Absent, fmt |-> "-"]

VARIABLES
  req,         \* the inbound request: method, path, body, query, headers
  backend,     \* what the backend does with a call
  pc,          \* where the request's handling stands
  backendReq,  \* the request sent to OLLAMA_URL, NoCall before
  calls,       \* outbound calls made for this request
  conn,        \* the backend connection held by resp: none, open, released
  lines,       \* the lines iter_lines() has yielded so far
  cur,         \* line_bytes
  out,         \* the chunks ndjson_stream has yielded, in order
  client       \* status line and head of the response to the client

\* The variables of the pure-function runs.
VARIABLES text, once, twice, tpc

vars == <<req, backend, pc, backendReq, calls, conn, lines, cur, out, client,
          text, once, twice, tpc>>
tvars == <<text, once, twice, tpc>>
pvars == <<req, backend, pc, backendReq, calls, conn, lines, cur, out, client>>

\* A request has arrived and nothing has been done with it.
Accepted ==
  /\ pc = "accept"
  /\ backendReq = NoCall
  /\ calls = 0
  /\ conn = "none"
  /\ lines = <<>>
  /\ cur = NoLine
  /\ out = <<>>
  /\ client = NoResponse
  /\ text = <<>> /\ once = <<>> /\ twice = <<>> /\ tpc = "off"

Init ==
  /\ req \in RoutingRequests
  /\ backend \in PlainBackends
  /\ Accepted

\* ---------------------------------------------------------------- routing
IsChat == req.path = "api/chat" /\ req.method = "POST"
IsGenerate == req.path = "api/generate" /\ req.method = "POST"

\* Flask's choice of a view.  The rule /api/chat (POST, and OPTIONS, which
\* Flask adds to a rule that does not list it and answers itself) is tried
\* before the rule /<path:path>, which needs a non-empty path.
Route ==
  IF IsChat THEN "proxy_chat"
  ELSE IF req.path = "api/chat" /\ req.method = "OPTIONS" THEN "automatic_options"
  ELSE IF req.path = "" THEN "not_found"
  ELSE "proxy_all"

\* requests.post(f"{OLLAMA_URL}/api/chat", headers=headers,
\* data=request.get_data(), allow_redirects=False, params=request.args,
\* stream=True): the body goes out as it came in; stream=True only defers
\* the download of the response body.
ChatBackendRequest ==
  [sent |-> TRUE, method |-> "POST",
   url |-> <<"OLLAMA_URL", "/", "api/chat">>, path |-> "api/chat",
   body |-> req.body, lazy |-> TRUE,
   query |-> ParamsSent(req.query, 1),
   headers |-> FilterRequestHeaders(req.headers),
   allow_redirects |-> FALSE]

\* A proxy_chat that hands on the backend's status.
proxy_chat_RelayStatus ==
  /\ pc = "accept" /\ Route = "proxy_chat" /\ backend.up
  /\ backendReq' = ChatBackendRequest
  /\ calls' = calls + 1
  /\ conn' = "open"
  /\ client' = [status |-> backend.status,
                mimetype |-> "application/x-ndjson; charset=utf-8",
                streamed |-> TRUE, body |-> NoBody, headers |-> <<>>]
  /\ pc' = "ready"
  /\ UNCHANGED <<req, backend, lines, cur, out, tvars>>

\* proxy_chat, the backend answering: the call is made, the connection is
\* held by resp, and a Response around the unstarted generator is returned
\* with Flask's default status and the NDJSON mimetype.
proxy_chat ==
  /\ pc = "accept" /\ Route = "proxy_chat" /\ backend.up
  /\ backendReq' = ChatBackendRequest
  /\ calls' = calls + 1
  /\ conn' = "open"
  /\ client' = [status |-> 200,
                mimetype |-> "application/x-ndjson; charset=utf-8",
                streamed |-> TRUE, body |-> NoBody, headers |-> <<>>]
  /\ pc' = "ready"
  /\ UNCHANGED <<req, backend, lines, cur, out, tvars>>

\* proxy_chat, requests.post raising: no handler catches it, Flask answers
\* 500.
proxy_chat_unreachable ==
  /\ pc = "accept" /\ Route = "proxy_chat" /\ ~backend.up
  /\ backendReq' = ChatBackendRequest
  /\ calls' = calls + 1
  /\ client' = [status |-> 500, mimetype |-> "text/html", streamed |-> FALSE,
                body |-> ErrorPage, headers |-> <<>>]
  /\ pc' = "responded"
  /\ UNCHANGED <<req, backend, conn, lines, cur, out, tvars>>

\* No URL rule matches the root path: Flask answers 404 itself.
flask_not_found ==
  /\ pc = "accept" /\ Route = "not_found"
  /\ client' = [status |-> 404, mimetype |-> "text/html", streamed |-> FALSE,
                body |-> [data |-> "Not Found", coding |-> "identity"],
                headers |-> <<>>]
  /\ pc' = "responded"
  /\ UNCHANGED <<req, backend, backendReq, calls, conn, lines, cur, out, tvars>>

\* OPTIONS on /api/chat: Flask answers with the rule's Allow list itself.
flask_automatic_options ==
  /\ pc = "accept" /\ Route = "automatic_options"
  /\ client' = [status |-> 200, mimetype |-> "text/html", streamed |-> FALSE,
                body |-> [data |-> "", coding |-> "identity"],
                headers |-> <<Header("Allow", <<"OPTIONS", ",", "POST">>)>>]
  /\ pc' = "responded"
  /\ UNCHANGED <<req, backend, backendReq, calls, conn, lines, cur, out, tvars>>

\* proxy_all for POST api/generate: proxy_generate is defined nowhere, the
\* call raises NameError and Flask answers 500; no backend call is made.
proxy_all_generate ==
  /\ pc = "accept" /\ Route = "proxy_all" /\ IsGenerate
  /\ client' = [status |-> 500, mimetype |-> "text/html", streamed |-> FALSE,
                body |-> ErrorPage, headers |-> <<>>]
  /\ pc' = "responded"
  /\ UNCHANGED <<req, backend, backendReq, calls, conn, lines, cur, out, tvars>>

\* requests.request(method=request.method, url=f"{OLLAMA_URL}/{path}",
\* headers=headers, data=request.get_data(), allow_redirects=...,
\* params=request.args)
ForwardRequest(allow) ==
  [sent |-> TRUE, method |-> req.method,
   url |-> <<"OLLAMA_URL", "/", req.path>>, path |-> req.path,
   body |-> req.body, lazy |-> FALSE,
   query |-> ParamsSent(req.query, 1),
   headers |-> FilterRequestHeaders(req.headers),
   allow_redirects |-> allow]

\* What requests.request returns and how many calls it took: with
\* allow_redirects a 3xx answer is followed by a second call, to the
\* Location, whose answer (200 here) is returned instead.
Fetched(allow) ==
  IF allow /\ backend.status = 302
  THEN [resp |-> Answer(200, <<>>), n |-> 2]
  ELSE [resp |-> backend, n |-> 1]

\* Response(resp.content, resp.status_code, response_headers)
Relayed(resp) ==
  [status |-> resp.status, mimetype |-> "from-headers", streamed |-> FALSE,
   body |-> ContentOf_resp(resp),
   headers |-> FilterResponseHeaders(resp.headers)]

\* The rest of proxy_all, the backend answering.
ForwardWith(allow) ==
  /\ pc = "accept" /\ Route = "proxy_all" /\ ~IsGenerate /\ backend.up
  /\ backendReq' = ForwardRequest(allow)
  /\ calls' = calls + Fetched(allow).n
  /\ client' = Relayed(Fetched(allow).resp)
  /\ pc' = "responded"
  /\ UNCHANGED <<req, backend, conn, lines, cur, out, tvars>>

\* A forwarder that lets requests follow redirects.
proxy_all_forward_FollowRedirects == ForwardWith(TRUE)

\* A forwarder that answers 200 whatever the backend's status.
proxy_all_forward_Status200 ==
  /\ pc = "accept" /\ Route = "proxy_all" /\ ~IsGenerate /\ backend.up
  /\ backendReq' = ForwardRequest(FALSE)
  /\ calls' = calls + 1
  /\ client' = [Relayed(backend) EXCEPT !.status = 200]
  /\ pc' = "responded"
  /\ UNCHANGED <<req, backend, conn, lines, cur, out, tvars>>

\* proxy_all for everything else: one requests.request with
\* allow_redirects=False, its status, filtered headers and content relayed.
proxy_all_forward == ForwardWith(FALSE)

\* A forwarder that catches the connection error and answers 200.
proxy_all_unreachable_Swallowed ==
  /\ pc = "accept" /\ Route = "proxy_all" /\ ~IsGenerate /\ ~backend.up
  /\ backendReq' = ForwardRequest(FALSE)
  /\ calls' = calls + 1
  /\ client' = [status |-> 200, mimetype |-> "text/html", streamed |-> FALSE,
                body |-> [data |-> "", coding |-> "identity"], headers |-> <<>>]
  /\ pc' = "responded"
  /\ UNCHANGED <<req, backend, conn, lines, cur, out, tvars>>

\* proxy_all, requests.request raising: nothing catches it, nothing tries
\* again, Flask answers 500.
proxy_all_unreachable ==
  /\ pc = "accept" /\ Route = "proxy_all" /\ ~IsGenerate /\ ~backend.up
  /\ backendReq' = ForwardRequest(FALSE)
  /\ calls' = calls + 1
  /\ client' = [status |-> 500, mimetype |-> "text/html", streamed |-> FALSE,
                body |-> ErrorPage, headers |-> <<>>]
  /\ pc' = "responded"
  /\ UNCHANGED <<req, backend, conn, lines, cur, out, tvars>>

\* --------------------------------------------------------- ndjson_stream
\* The generator is at its `for`: not started, suspended at its yield with
\* the server asking for the next chunk, or back from a continue or an
\* except clause.
AtFor == pc \in {"ready", "yield", "loop"}

\* iter_lines() yields the next line of the backend's stream.
ReadLine ==
  /\ AtFor
  /\ Len(lines) < MaxLines
  /\ \E l \in LineSet :
       /\ lines' = Append(lines, l)
       /\ cur' = l
  /\ pc' = "line"
  /\ UNCHANGED <<req, backend, backendReq, calls, conn, out, client, tvars>>

\* iter_lines() is exhausted: the generator returns, and the body being
\* consumed, requests hands the connection back.
ReadEnd ==
  /\ AtFor
  /\ pc' = "done"
  /\ conn' = "released"
  /\ UNCHANGED <<req, backend, backendReq, calls, lines, cur, out, client, tvars>>

\* A failed read answered by telling the client so in the stream.
ReadFail_Inject ==
  /\ AtFor
  /\ out' = Append(out, Chunk(JObj(Absent, Absent)))
  /\ pc' = "failed"
  /\ conn' = "released"
  /\ UNCHANGED <<req, backend, backendReq, calls, lines, cur, client, tvars>>

\* iter_lines() raises on a failed read.  The `for` is outside the try, so
\* the exception leaves the generator; whatever part of a line had arrived
\* stays in iter_lines' pending buffer.  The transport closes the broken
\* connection.
ReadFail ==
  /\ AtFor
  /\ pc' = "failed"
  /\ conn' = "released"
  /\ UNCHANGED <<req, backend, backendReq, calls, lines, cur, out, client, tvars>>

\* An empty line sent on as a blank line.
SkipEmpty_EmitBlank ==
  /\ pc = "line" /\ cur.kind = "empty"
  /\ out' = Append(out, RawChunk(cur))
  /\ pc' = "yield"
  /\ UNCHANGED <<req, backend, backendReq, calls, conn, lines, cur, client, tvars>>

\* `if not line_bytes: continue`.
SkipEmpty ==
  /\ pc = "line" /\ cur.kind = "empty"
  /\ pc' = "loop"
  /\ UNCHANGED <<req, backend, backendReq, calls, conn, lines, cur, out, client, tvars>>

\* A decode error answered by sending the line on as it came.
DropDecodeError_Forward ==
  /\ pc = "line" /\ cur.kind = "badjson"
  /\ out' = Append(out, RawChunk(cur))
  /\ pc' = "yield"
  /\ UNCHANGED <<req, backend, backendReq, calls, conn, lines, cur, client, tvars>>

\* `except json.JSONDecodeError`: the line is logged, nothing is yielded.
DropDecodeError ==
  /\ pc = "line" /\ cur.kind = "badjson"
  /\ pc' = "loop"
  /\ UNCHANGED <<req, backend, backendReq, calls, conn, lines, cur, out, client, tvars>>

\* `except Exception`: json.loads raising something else, or lines 127-128
\* raising TypeError; the line is logged, nothing is yielded.
DropGenericError ==
  /\ pc = "line"
  /\ \/ cur.kind = "badutf8"
     \/ cur.kind = "json" /\ TransformRaises(json_loads(cur))
  /\ pc' = "loop"
  /\ UNCHANGED <<req, backend, backendReq, calls, conn, lines, cur, out, client, tvars>>

\* A yield that puts the chunk before the ones already sent.
Emit_Prepend ==
  /\ pc = "line"
  /\ cur.kind = "json" /\ ~TransformRaises(json_loads(cur))
  /\ out' = <<Chunk(LineTransform(json_loads(cur)))>> \o out
  /\ pc' = "yield"
  /\ UNCHANGED <<req, backend, backendReq, calls, conn, lines, cur, client, tvars>>

\* A generator that keeps the chunk in a list to send after the loop, and
\* goes on reading.
Emit_Buffered ==
  /\ pc = "line"
  /\ cur.kind = "json" /\ ~TransformRaises(json_loads(cur))
  /\ pc' = "loop"
  /\ UNCHANGED <<req, backend, backendReq, calls, conn, lines, cur, out, client, tvars>>

\* Lines 124-131 without an exception: parse, clean, yield the chunk.  The
\* generator is suspended with the chunk in the server's hands.
Emit ==
  /\ pc = "line"
  /\ cur.kind = "json" /\ ~TransformRaises(json_loads(cur))
  /\ out' = Append(out, Chunk(LineTransform(json_loads(cur))))
  /\ pc' = "yield"
  /\ UNCHANGED <<req, backend, backendReq, calls, conn, lines, cur, client, tvars>>

\* The client goes away: the server closes the response iterable, which
\* raises GeneratorExit at the yield (or drops the unstarted generator).
\* `except Exception` does not catch it, and nothing closes resp.
ClientDisconnect ==
  /\ pc \in {"ready", "yield"}
  /\ pc' = "closed"
  /\ UNCHANGED <<req, backend, backendReq, calls, conn, lines, cur, out, client, tvars>>

\* The runtime finalises the abandoned generator and resp at a time of its
\* choosing, which closes the connection.
Finalize ==
  /\ pc = "closed" /\ conn = "open"
  /\ conn' = "released"
  /\ UNCHANGED <<req, backend, pc, backendReq, calls, lines, cur, out, client, tvars>>

Next ==
  \/ proxy_chat
  \/ proxy_chat_unreachable
  \/ flask_not_found
  \/ flask_automatic_options
  \/ proxy_all_generate
  \/ proxy_all_forward
  \/ proxy_all_unreachable
  \/ ReadLine
  \/ ReadEnd
  \/ ReadFail
  \/ SkipEmpty
  \/ DropDecodeError
  \/ DropGenericError
  \/ Emit
  \/ ClientDisconnect
  \/ Finalize

Spec == Init /\ [][Next]_vars

\* ------------------------------------------------- the transform, applied
\* Every content string of at most MaxContentLen tokens.
Texts == UNION {[1..n -> ContentTokens] : n \in 0..MaxContentLen}

\* The record whose message.content is the string s.
RecordOf(s) == Content(s)
ContentOf(r) == r.message.content.s

\* The generator holds a line whose message.content is text.
TInit ==
  /\ text \in Texts
  /\ once = <<>> /\ twice = <<>> /\ tpc = "input"
  /\ req = [method |-> "POST", path |-> "api/chat", body |-> "stream-true",
            query |-> <<>>, headers |-> <<>>]
  /\ backend = Answer(200, <<>>)
  /\ pc = "line"
  /\ backendReq = ChatBackendRequest
  /\ calls = 1
  /\ conn = "open"
  /\ cur = JsonLine(RecordOf(text))
  /\ lines = <<cur>>
  /\ out = <<>>
  /\ client = [status |-> 200,
               mimetype |-> "application/x-ndjson; charset=utf-8",
               streamed |-> TRUE, body |-> NoBody, headers |-> <<>>]

\* Lines 127-128 on the record holding text.
ApplyOnce ==
  /\ tpc = "input"
  /\ once' = ContentOf(LineTransform(json_loads(cur)))
  /\ tpc' = "once"
  /\ UNCHANGED <<text, twice, pvars>>

\* Lines 127-128 again, on the record they produced.
ApplyTwice ==
  /\ tpc = "once"
  /\ twice' = ContentOf(LineTransform(RecordOf(once)))
  /\ tpc' = "twice"
  /\ UNCHANGED <<text, once, pvars>>

TNext ==
  \/ ApplyOnce
  \/ ApplyTwice

TransformSpec == TInit /\ [][TNext]_vars

\* ------------------------------------------- one request, up to its answer
\* The handlers on requests with header lists and query strings, against
\* backends answering with header lists: the run ends when the view
\* returns.
RInit ==
  /\ req \in RoutingRequests \cup HeaderRequests \cup QueryRequests
  /\ backend \in PlainBackends \cup HeaderBackends
  /\ Accepted

RNext ==
  \/ proxy_chat
  \/ proxy_chat_unreachable
  \/ flask_not_found
  \/ flask_automatic_options
  \/ proxy_all_generate
  \/ proxy_all_forward
  \/ proxy_all_unreachable

RequestSpec == RInit /\ [][RNext]_vars

\* ============================================================== the claims
\* What the claims speak of, stated over the backend's lines and the
\* client's chunks.

\* The lines ndjson_stream is done with: all but the one it holds.
Settled == IF pc = "line" THEN Len(lines) - 1 ELSE Len(lines)
SettledLines == SubSeq(lines, 1, Settled)

\* A line that does not parse as JSON.
Malformed(l) == l.kind \in {"badjson", "badutf8"}

\* A line for which a chunk is due: it parses and lines 127-128 go through.
Emits(l) == l.kind = "json" /\ ~TransformRaises(l.val)

\* The chunks due for a sequence of lines, line by line.
RECURSIVE PipelineImage(_)
PipelineImage(ls) ==
  IF ls = <<>> THEN <<>>
  ELSE (IF Emits(Head(ls)) THEN <<Chunk(LineTransform(Head(ls).val))>> ELSE <<>>)
       \o PipelineImage(Tail(ls))

IsMalformedLine(l) == Malformed(l)
WithoutMalformed(ls) == SelectSeq(ls, LAMBDA l : ~IsMalformedLine(l))

\* Whether message.content of a parsed value resolves to a string.
Resolves(v) ==
  IF v.t # "obj" THEN FALSE
  ELSE IF v.message.t # "obj" THEN FALSE
  ELSE v.message.content.t = "str"

\* ---- C1
\* C1: a line that does not parse as JSON yields no chunk and does not end
\* the stream (the generator goes back to its loop with the output as it
\* was), and the chunks sent are at every moment those of the settled
\* lines with the malformed ones taken out.
C1_MalformedLineSkipped ==
  /\ [](out = PipelineImage(WithoutMalformed(SettledLines)))
  /\ [][(pc = "line" /\ Malformed(cur))
          => (out' = out /\ lines' = lines /\ pc' = "loop")]_vars

\* A malformed first line, then a second line whose chunk went out.
C1_Witness ==
  /\ Len(lines) >= 2 /\ Malformed(lines[1]) /\ Emits(lines[2])
  /\ pc = "yield" /\ Len(out) = 1

\* ---- C2
\* C2: a line that parses as JSON but whose message.content does not
\* resolve to a string is sent on unchanged: the step that handles it
\* appends the record as it was parsed.
C2_UnresolvedRecordPassedThrough ==
  [][(pc = "line" /\ cur.kind = "json" /\ ~Resolves(cur.val))
       => (out' = Append(out, Chunk(cur.val)))]_vars

\* ---- C3
\* C3: the transform applied twice gives what it gives applied once.
C3_Idempotent == tpc = "twice" => twice = once

\* ---- C4
\* C4: a POST to /api/generate is answered after a backend call whose body
\* has stream set to false.
C4_GenerateForcesNonStreaming ==
  (IsGenerate /\ pc = "responded")
    => (backendReq.sent /\ backendReq.path = "api/generate"
        /\ backendReq.body = "stream-false")

\* ---- C5
\* C5: the chunks sent are the transforms of backend lines in the order
\* received: some strictly increasing choice of settled lines has exactly
\* the chunks sent as its transforms, one chunk per chosen line.
C5_OrderPreserved ==
  \E f \in [1..Len(out) -> 1..Settled] :
    /\ \A k \in 1..Len(out) :
         /\ Emits(lines[f[k]])
         /\ out[k] = Chunk(LineTransform(lines[f[k]].val))
    /\ \A j, k \in 1..Len(out) : j < k => f[j] < f[k]

\* Two different chunks have gone out.
C5_Witness == pc = "yield" /\ Len(out) >= 2 /\ out[1] # out[2]

\* ---- C6
\* C6: the body of the chat request sent to the backend asks for a stream,
\* whatever the inbound body said.
C6_ChatAsksBackendToStream ==
  (backendReq.sent /\ backendReq.path = "api/chat")
    => backendReq.body = "stream-true"

\* ---- C7
\* C7: when the upstream read fails, the chunks sent are exactly those due
\* for the lines delivered before the failure, every one the transform of
\* a delivered line, and nothing is sent afterwards.
C7_TruncatedOnUpstreamFailure ==
  /\ [](pc = "failed" => out = PipelineImage(lines))
  /\ [][pc = "failed" => (out' = out /\ pc' = "failed")]_vars

\* The read failed after two lines had been delivered and a chunk sent.
C7_Witness == pc = "failed" /\ Len(lines) >= 2 /\ Len(out) >= 1

C9_Incremental ==
  /\ [](Len(PipelineImage(lines)) - Len(out) <= 1)
  /\ [][lines' # lines => out = PipelineImage(lines)]_vars
  /\ [][out' # out
          => (pc = "line" /\ pc' = "yield"
              /\ out' = Append(out, Chunk(LineTransform(cur.val))))]_vars

\* A chunk is out while the backend's stream has not ended, and a further
\* line is read after it.
C9_Witness == pc = "line" /\ Len(out) >= 1 /\ Len(lines) >= 2

\* ---- C10
\* The positions of s inside a span "opening tag, whitespace only, closing
\* tag", the tags in any letter case.
OpeningTags == {"<think>", "<THINK>"}
ClosingTags == {"</think>", "</Think>"}
Whitespace == {"SP", "NL"}
IsEmptySpan(s, i, j) ==
  /\ i < j /\ s[i] \in OpeningTags /\ s[j] \in ClosingTags
  /\ \A m \in (i + 1)..(j - 1) : s[m] \in Whitespace
InEmptySpan(s) ==
  {p \in 1..Len(s) :
     \E i \in 1..p : \E j \in p..Len(s) : IsEmptySpan(s, i, j)}
\* s with the positions in drop left out, the rest in order.
RECURSIVE KeepFrom(_, _, _)
KeepFrom(s, drop, p) ==
  IF p > Len(s) THEN <<>>
  ELSE (IF p \in drop THEN <<>> ELSE <<s[p]>>) \o KeepFrom(s, drop, p + 1)
SpansRemoved(s) == KeepFrom(s, InEmptySpan(s), 1)

\* C10: the content after the transform is the content before it with
\* every empty think-span left out and every other character kept in
\* place and order.
C10_EmptySpansRemoved == tpc # "input" => once = SpansRemoved(text)

\* An upper-case empty span with whitespace inside was removed and the
\* characters around it kept.
C10_Witness ==
  /\ tpc = "once"
  /\ text = <<"x", "<THINK>", "NL", "</Think>">>
  /\ once = <<"x">>

\* ---- C11
\* Whether s[i..j] is properly nested: no closing tag without its opening
\* tag before it, and every opening tag closed.
RECURSIVE NestedFrom(_, _, _, _)
NestedFrom(s, i, j, depth) ==
  IF i > j THEN depth = 0
  ELSE IF s[i] \in OpeningTags THEN NestedFrom(s, i + 1, j, depth + 1)
  ELSE IF s[i] \in ClosingTags
       THEN depth > 0 /\ NestedFrom(s, i + 1, j, depth - 1)
  ELSE NestedFrom(s, i + 1, j, depth)

\* s is one tag pair around properly nested content that has a
\* non-whitespace character in it.
IsSpanWithContent(s) ==
  /\ Len(s) >= 3
  /\ s[1] \in OpeningTags /\ s[Len(s)] \in ClosingTags
  /\ NestedFrom(s, 2, Len(s) - 1, 0)
  /\ \E m \in 2..(Len(s) - 1) : s[m] \notin Whitespace

\* C11 as stated: a tag pair enclosing non-whitespace content comes out of
\* the transform as it went in, also when further think-tags are inside.
C11_SpanWithContentUntouched ==
  (tpc # "input" /\ IsSpanWithContent(text)) => once = text

\* C11, amended: a content without any empty span (opening tag, whitespace
\* only, closing tag) comes out of the transform as it went in.
C11_UntouchedWithoutEmptySpan ==
  (tpc # "input" /\ InEmptySpan(text) = {}) => once = text

\* A pair around a character, followed by a character, went through.
C11_Witness ==
  /\ tpc = "once"
  /\ text = <<"<think>", "x", "</think>", "x">>
  /\ once = text

\* ---- C12
\* The request was handled by the rest of proxy_all, the forwarder.
HandledByForwarder == Route = "proxy_all" /\ ~IsGenerate

\* C12: every request other than POST /api/chat and POST /api/generate,
\* the root path and other methods on the two paths included, is answered
\* by forwarding it to the backend with its method and path.
C12_EverythingElseForwarded ==
  (pc = "responded" /\ ~IsChat /\ ~IsGenerate)
    => (backendReq.sent /\ backendReq.method = req.method
        /\ backendReq.path = req.path)

\* ---- C13
\* C13: the backend receives the inbound query parameters as they came:
\* same keys, same values, same multiplicity, same order.
C13_QueryPreserved ==
  (HandledByForwarder /\ backendReq.sent) => backendReq.query = req.query

\* ---- C14
\* A header list with its names in lower case: names are compared without
\* regard to letter case.
LowerNames(hs) == [i \in 1..Len(hs) |-> Header(LowerName(hs[i].name), hs[i].value)]
IsNotHost(h) == LowerName(h.name) # "host"
IsNotExcluded(h) ==
  LowerName(h.name) \notin
    {"content-encoding", "content-length", "transfer-encoding", "connection"}

\* C14: the headers sent to the backend are the inbound header lines minus
\* Host, line for line and in order, repeated names included; the headers
\* relayed to the client are the backend's lines minus the four excluded
\* names, line for line and in order.
C14_HeadersOnlyFiltered ==
  /\ backendReq.sent
       => LowerNames(backendReq.headers)
            = LowerNames(SelectSeq(req.headers, IsNotHost))
  /\ (pc = "responded" /\ HandledByForwarder /\ backend.up)
       => LowerNames(client.headers)
            = LowerNames(SelectSeq(backend.headers, IsNotExcluded))

\* ---- C15
\* C15: a request handled by the forwarder makes exactly one backend call,
\* asked not to follow redirects; a 302 answer is relayed with its status
\* and every Location line it carries.
C15_OneCallRedirectRelayed ==
  (pc = "responded" /\ HandledByForwarder)
    => /\ calls = 1
       /\ ~backendReq.allow_redirects
       /\ (backend.up /\ backend.status = 302)
            => /\ client.status = 302
               /\ \A i \in 1..Len(backend.headers) :
                    LowerName(backend.headers[i].name) = "location"
                      => \E k \in 1..Len(client.headers) :
                           client.headers[k] = backend.headers[i]

\* The backend answered 302 with a Location and the client got both.
C15_Witness ==
  /\ pc = "responded" /\ HandledByForwarder
  /\ backend.up /\ backend.status = 302
  /\ backend.headers = <<Header("Location", <<"u">>)>>
  /\ client.status = 302 /\ client.headers = backend.headers /\ calls = 1

C17_ExcludedHeadersNeverSent ==
  /\ backendReq.sent
       => \A i \in 1..Len(backendReq.headers) : IsNotHost(backendReq.headers[i])
  /\ (pc = "responded" /\ HandledByForwarder)
       => \A k \in 1..Len(client.headers) : IsNotExcluded(client.headers[k])

\* A request carrying host and Accept went out with Accept alone, and an
\* answer carrying CONTENT-LENGTH and Location came back with Location alone.
C17_Witness ==
  /\ pc = "responded" /\ HandledByForwarder
  /\ req.headers = <<Header("host", <<"h">>), Header("Accept", <<"a1">>)>>
  /\ backendReq.headers = <<Header("Accept", <<"a1">>)>>
  /\ backend.up
  /\ backend.headers = <<Header("CONTENT-LENGTH", <<"n">>), Header("Location", <<"u">>)>>
  /\ client.headers = <<Header("Location", <<"u">>)>>

\* ---- C18
\* C18: as many chunks are sent as there are settled lines that are not
\* empty and went through without an exception; every chunk is one JSON
\* record in json.dumps' spelling followed by one newline; an empty line
\* sends nothing and goes back to the loop.
C18_EmptyLinesSkipped ==
  /\ [](/\ Len(out) = Cardinality({i \in 1..Settled :
                                     lines[i].kind # "empty" /\ Emits(lines[i])})
        /\ \A k \in 1..Len(out) :
             /\ out[k].json # Absent
             /\ out[k].fmt = "dumps"
             /\ out[k].tail = <<"NL">>)
  /\ [][(pc = "line" /\ cur.kind = "empty")
          => (out' = out /\ pc' = "loop")]_vars

\* An empty line was read, then a valid one, and one chunk is out.
C18_Witness ==
  /\ Len(lines) = 2 /\ lines[1].kind = "empty" /\ Emits(lines[2])
  /\ pc = "yield" /\ Len(out) = 1

\* ---- C19
\* C19: when the backend cannot be reached the forwarder's request ends in
\* a 5xx answer, after a single attempt.
C19_UnreachableIs5xx ==
  (pc = "responded" /\ HandledByForwarder /\ ~backend.up)
    => (client.status \in 500..599 /\ calls = 1)

\* A forwarded request met an unreachable backend and was answered 500.
C19_Witness ==
  /\ pc = "responded" /\ HandledByForwarder /\ ~backend.up
  /\ client.status = 500 /\ backendReq.sent

\* ---- C20
\* C20: once the chat call has returned, whatever the backend's status,
\* the client's response has status 200, the NDJSON content type and none
\* of the backend's headers, and its chunks are those due for the lines of
\* the backend's body.
C20_ChatAlwaysSuccessNdjson ==
  (Route = "proxy_chat" /\ backend.up /\ pc # "accept")
    => /\ client.status = 200
       /\ client.mimetype = "application/x-ndjson; charset=utf-8"
       /\ client.headers = <<>>
       /\ client.streamed
       /\ out = PipelineImage(SettledLines)

\* The backend answered 404 with a JSON error object as its body, which
\* went out as a chunk of a 200 response.
C20_Witness ==
  /\ Route = "proxy_chat" /\ backend.up /\ backend.status = 404
  /\ client.status = 200 /\ pc = "yield"
  /\ out = <<Chunk(JObj(Absent, Absent))>>

====
